---- MODULE Spec2Model ----
(***************************************************************************)
(* A model of nscloader: the two-way merge of the intervals of two         *)
(* TextGrid files (Conversation.linearize), the interval parser            *)
(* (Conversation.generate_intervals, Interval.from_text), the tag table    *)
(* (Tag), Token construction (Token.__init__) and Interval.tokenize.       *)
(*                                                                         *)
(* Python strings are modelled as sequences of one-character strings.      *)
(***************************************************************************)
EXTENDS Integers, Sequences, FiniteSets, TLC

VARIABLES
    \* Conversation.linearize
    seq_a,      \* what generate_intervals(textgrid1) will yield before False
    seq_b,      \* what generate_intervals(textgrid2) will yield before False
    gen1,       \* state of the generator gen1
    gen2,       \* state of the generator gen2
    iv1,        \* local iv1: pending item of gen1 (an Interval or False)
    iv2,        \* local iv2: pending item of gen2 (an Interval or False)
    gen,        \* local gen of the drain loop: 1 for gen1, 2 for gen2
    iv,         \* local iv of the drain loop
    out,        \* the items linearize has yielded to its consumer, in order
    pc,         \* position inside linearize
    outcome,    \* what the consumer of linearize observed at its end
    \* Token.__init__
    string,     \* argument string
    cleanup,    \* argument cleanup
    working,    \* local content before the words search: the working text
    tok,        \* the constructed Token, or the exception raised
    \* Interval.tokenize
    text,       \* argument text
    opts,       \* the five option flags
    matched,    \* patt.findall(text)
    tokens,     \* the returned list, or the exception raised
    \* Conversation.generate_intervals
    rawtext,    \* the text open_textgrid read
    ivtexts,    \* what is left of repatt.findall(rawtext)
    yielded,    \* the Intervals yielded so far
    ppc,        \* position inside generate_intervals
    perror      \* the exception that reached the consumer, if any

mergeVars == <<seq_a, seq_b, gen1, gen2, iv1, iv2, gen, iv, out, pc, outcome>>

tokenVars == <<string, cleanup, working, tok>>

tokenizeVars == <<text, opts, matched, tokens>>

parseVars == <<rawtext, ivtexts, yielded, ppc, perror>>

vars == <<mergeVars, tokenVars, tokenizeVars, parseVars>>

\* what each operation leaves alone
notMerge == <<tokenVars, tokenizeVars, parseVars>>

notToken == <<mergeVars, tokenizeVars, parseVars>>

notTokenize == <<mergeVars, tokenVars, parseVars>>

notParse == <<mergeVars, tokenVars, tokenizeVars>>

(***************************************************************************)
(* Bounds of the model.                                                    *)
(***************************************************************************)
\* longest producer (number of intervals of one TextGrid)
MaxLen == 3
\* xmin values are drawn from 0..MaxX
MaxX == 1
\* a string given to Token is a concatenation of at most MaxPieces pieces
MaxPieces == 3
\* a text given to tokenize is a concatenation of at most MaxTextPieces pieces
MaxTextPieces == 2
\* a TextGrid text has at most MaxUnits units
MaxUnits == 4

(***************************************************************************)
(* Python strings: sequences of characters                                 *)
(***************************************************************************)

UpperChars == <<"A", "B", "C", "D", "E", "F", "G", "H", "I", "J", "K", "L", "M", "N", "O", "P", "Q", "R", "S", "T", "U", "V", "W", "X", "Y", "Z">>

LowerChars == <<"a", "b", "c", "d", "e", "f", "g", "h", "i", "j", "k", "l", "m", "n", "o", "p", "q", "r", "s", "t", "u", "v", "w", "x", "y", "z">>

Letters == {UpperChars[i] : i \in 1..Len(UpperChars)}
             \cup {LowerChars[i] : i \in 1..Len(LowerChars)}

Digits == {"0", "1", "2", "3", "4", "5", "6", "7", "8", "9"}

\* the regular expression class \w (str patterns)
WordChars == Letters \cup Digits \cup {"_"}

\* the regular expression class \s, and the characters str.split() splits at
SpaceChars == {" ", "\t", "\n", "\r"}

LowerChar(c) ==
    IF \E i \in 1..Len(UpperChars) : UpperChars[i] = c
      THEN LowerChars[CHOOSE i \in 1..Len(UpperChars) : UpperChars[i] = c]
      ELSE c

\* str.lower()
Lower(s) == [i \in 1..Len(s) |-> LowerChar(s[i])]

\* p occurs in s at position i
OccursAt(s, p, i) ==
    /\ i >= 1
    /\ i + Len(p) - 1 <= Len(s)
    /\ \A k \in 1..Len(p) : s[i + k - 1] = p[k]

\* p in s
Contains(s, p) == \E i \in 1..(Len(s) + 1) : OccursAt(s, p, i)

\* s.startswith(p)
StartsWith(s, p) == OccursAt(s, p, 1)

\* s.endswith(p)
EndsWith(s, p) == Len(p) <= Len(s) /\ OccursAt(s, p, Len(s) - Len(p) + 1)

\* s.replace(old, new), old not empty: the occurrences of old are replaced
\* from left to right, without overlap
RECURSIVE Replace(_, _, _)
Replace(s, old, new) ==
    IF s = <<>> THEN <<>>
    ELSE IF OccursAt(s, old, 1)
      THEN new \o Replace(SubSeq(s, Len(old) + 1, Len(s)), old, new)
      ELSE <<Head(s)>> \o Replace(Tail(s), old, new)

\* the index after the longest run of characters of class cls that starts at i
RECURSIVE RunEnd(_, _, _)
RunEnd(s, i, cls) ==
    IF i <= Len(s) /\ s[i] \in cls THEN RunEnd(s, i + 1, cls) ELSE i

\* s.split(): the maximal runs of non-whitespace characters
RECURSIVE SplitFrom(_, _)
SplitFrom(s, i) ==
    IF i > Len(s) THEN <<>>
    ELSE IF s[i] \in SpaceChars THEN SplitFrom(s, i + 1)
    ELSE LET e == RunEnd(s, i, {s[k] : k \in 1..Len(s)} \ SpaceChars)
         IN  <<SubSeq(s, i, e - 1)>> \o SplitFrom(s, e)

Split(s) == SplitFrom(s, 1)

\* ' '.join(parts)
RECURSIVE JoinSpace(_)
JoinSpace(parts) ==
    IF parts = <<>> THEN <<>>
    ELSE IF Len(parts) = 1 THEN parts[1]
    ELSE parts[1] \o <<" ">> \o JoinSpace(Tail(parts))

(***************************************************************************)
(* class Tag and the three tag lists                                       *)
(***************************************************************************)

\* Tag.__members__, in declaration order
TagMembers == <<
    [name |-> "PPB", value |-> <<"(", "p", "p", "b", ")">>],
    [name |-> "PPC", value |-> <<"(", "p", "p", "c", ")">>],
    [name |-> "PPL", value |-> <<"(", "p", "p", "l", ")">>],
    [name |-> "PPO", value |-> <<"(", "p", "p", "o", ")">>],
    [name |-> "FIL", value |-> <<"<", "F", "I", "L", "/", ">">>],
    [name |-> "INV", value |-> <<"*", "*">>],
    [name |-> "Z", value |-> <<"<", "Z", ">">>],
    [name |-> "S", value |-> <<"<", "S", ">">>],
    [name |-> "UNK", value |-> <<"<", "U", "N", "K", ">">>],
    [name |-> "SPK", value |-> <<"<", "S", "P", "K", "/", ">">>],
    [name |-> "STA", value |-> <<"<", "S", "T", "A", "/", ">">>],
    [name |-> "NON", value |-> <<"<", "N", "O", "N", "/", ">">>],
    [name |-> "NPS", value |-> <<"<", "N", "P", "S", "/", ">">>],
    [name |-> "NEN", value |-> <<"<", "N", "E", "N", ">">>],
    [name |-> "MW", value |-> <<"-">>],
    [name |-> "IN", value |-> <<"_">>],
    [name |-> "IC", value |-> <<"~">>],
    [name |-> "DD", value |-> <<"[", " ", "]">>],
    [name |-> "FF", value |-> <<"(", " ", ")">>],
    [name |-> "HH", value |-> <<"#", " ", "#">>],
    [name |-> "II", value |-> <<"!", " ", "!">>],
    [name |-> "SEN", value |-> <<"<", "/", "s", ">">>],
    [name |-> "C", value |-> <<"<", "/", "c", ">">>] >>

TagNames == {TagMembers[k].name : k \in 1..Len(TagMembers)}

\* tag.value
TagValue(t) ==
    TagMembers[CHOOSE k \in 1..Len(TagMembers) : TagMembers[k].name = t].value

TAGS_NONCONTENT == <<"FIL", "SPK", "STA", "NON", "NPS", "SEN", "C", "S", "Z",
                     "UNK", "NEN", "PPB", "PPC", "PPL", "PPO", "INV">>

TAGS_CLITIC == <<"MW", "IC", "IN">>

TAGS_BALANCED == <<"DD", "FF", "HH", "II">>

InList(t, list) == \E k \in 1..Len(list) : list[k] = t

\* Tag.pairs(lowercase=False): (left, right) of every tag, right None (here
\* the empty string, which no split part is) for a tag of one form
Pairs ==
    [k \in 1..Len(TagMembers) |->
        LET parts == Split(TagMembers[k].value)
        IN  <<parts[1], IF Len(parts) > 1 THEN parts[2] ELSE <<>>>>]

\* balancedpairs() without its `if not right: continue`
BalancedPairsUnfiltered == Pairs

\* Tag.balancedpairs(): the pairs that have a right form
BalancedPairs == SelectSeq(Pairs, LAMBDA p : p[2] # <<>>)

(***************************************************************************)
(* class Token                                                             *)
(***************************************************************************)

\* Token.words_pattern: [\-\~_\w\' ]+
WordsClass == {TagValue(TAGS_CLITIC[k])[1] : k \in 1..Len(TAGS_CLITIC)}
                \cup WordChars \cup {"'", " "}

\* Token.balanced_pairs
balanced_pairs ==
    [k \in 1..Len(BalancedPairs) |->
        <<Lower(BalancedPairs[k][1]), Lower(BalancedPairs[k][2])>>]

\* v = repres.value.lower().split()[0], for every member
FirstForms ==
    [k \in 1..Len(TagMembers) |-> Split(Lower(TagMembers[k].value))[1]]

\* the tag scan: the first member whose first form, lowercased, is in s
RECURSIVE ScanTag(_, _)
ScanTag(s, k) ==
    IF k > Len(TagMembers) THEN "None"
    ELSE IF Contains(s, FirstForms[k])
      THEN TagMembers[k].name
      ELSE ScanTag(s, k + 1)

\* a balance check that only looks for a left delimiter without its right
UnbalancedLeftOnly(s) ==
    \E k \in 1..Len(balanced_pairs) :
        Contains(s, balanced_pairs[k][1]) /\ ~Contains(s, balanced_pairs[k][2])

\* the balance check raises: some pair has one delimiter in s and not the other
Unbalanced(s) ==
    \E k \in 1..Len(balanced_pairs) :
        Contains(s, balanced_pairs[k][1]) # Contains(s, balanced_pairs[k][2])

\* Token.anchor_tag
anchor_tag(tag) == IF tag = "None" THEN <<>> ELSE Split(TagValue(tag))[1]

\* the anchor form erased for the balanced tags only
StrippedBalancedOnly(s, tag) ==
    IF InList(tag, TAGS_BALANCED)
      THEN Replace(s, Lower(anchor_tag(tag)), <<>>)
      ELSE s

\* the working text the content is searched in
Stripped(s, tag) ==
    IF tag # "None" /\ ~InList(tag, TAGS_CLITIC)
      THEN Replace(s, Lower(anchor_tag(tag)), <<>>)
      ELSE s

\* words_pattern.search(content): the first longest run of word characters
RECURSIVE WordsSearch(_, _)
WordsSearch(s, i) ==
    IF i > Len(s) THEN <<>>
    ELSE IF s[i] \in WordsClass THEN SubSeq(s, i, RunEnd(s, i, WordsClass) - 1)
    ELSE WordsSearch(s, i + 1)

\* wrapwith taken from the lowercased forms
WrapWithLower(tag) ==
    IF tag # "None" /\ ~InList(tag, TAGS_CLITIC)
      THEN LET parts == Split(Lower(TagValue(tag)))
           IN  <<parts[1], IF Len(parts) > 1 THEN parts[2] ELSE <<>>>>
      ELSE << <<>>, <<>> >>

\* wrapwith: the forms of the tag as the enum declares them
WrapWith(tag) ==
    IF tag # "None" /\ ~InList(tag, TAGS_CLITIC)
      THEN LET parts == Split(TagValue(tag))
           IN  <<parts[1], IF Len(parts) > 1 THEN parts[2] ELSE <<>>>>
      ELSE << <<>>, <<>> >>

\* Token(string, cleanup): the object, or the ValueError of the balance check
Token(str, cl) ==
    LET s == Lower(str)
        tag == ScanTag(s, 1)
    IN  IF Unbalanced(s)
          THEN [kind |-> "ValueError", raw |-> str, tag |-> "None",
                content |-> <<>>, text |-> <<>>]
        ELSE IF ~cl
          THEN [kind |-> "Token", raw |-> str, tag |-> tag,
                content |-> s, text |-> s]
        ELSE LET content == JoinSpace(Split(WordsSearch(Stripped(s, tag), 1)))
                 wrapwith == WrapWith(tag)
             IN  [kind |-> "Token", raw |-> str, tag |-> tag,
                  content |-> content,
                  text |-> wrapwith[1] \o content \o wrapwith[2]]

\* the local content never assigned: the constructor returned or raised early
Unassigned == <<"unassigned">>

\* the local content as the words search reads it
WorkingText(str, cl) ==
    LET s == Lower(str)
    IN  IF Unbalanced(s) \/ ~cl THEN Unassigned
        ELSE Stripped(s, ScanTag(s, 1))

\* Token.__str__
TokenStr(t) == t.text

(***************************************************************************)
(* Interval.make_tokens_pattern and Interval.tokenize                      *)
(***************************************************************************)

\* the alternatives of the pattern, in order: the noncontent tags' lowercased
\* forms, the word class, and one alternative per balanced pair
TokensPattern ==
    [k \in 1..Len(TAGS_NONCONTENT) |->
        [kind |-> "literal", left |-> Lower(TagValue(TAGS_NONCONTENT[k])),
         right |-> <<>>]]
    \o <<[kind |-> "word", left |-> <<>>, right |-> <<>>]>>
    \o [k \in 1..Len(TAGS_BALANCED) |->
        LET parts == Split(Lower(TagValue(TAGS_BALANCED[k])))
        IN  [kind |-> "balanced", left |-> parts[1], right |-> parts[2]]]

\* [\w\-\~_']+
TokenWordClass == WordChars \cup {"'"}
                    \cup {TagValue(TAGS_CLITIC[k])[1] : k \in 1..Len(TAGS_CLITIC)}

\* [\w\-_\s']+
InnerClass == WordChars \cup {"-", "_", "'"} \cup SpaceChars

\* the match of one alternative with the balanced alternatives not asking for
\* the right delimiter after the inner run
MatchAltOpenOnly(s, i, alt) ==
    IF alt.kind = "literal"
      THEN IF OccursAt(s, alt.left, i) THEN i + Len(alt.left) ELSE 0
    ELSE IF alt.kind = "word"
      THEN LET e == RunEnd(s, i, TokenWordClass) IN IF e > i THEN e ELSE 0
    ELSE IF ~OccursAt(s, alt.left, i) THEN 0
    ELSE LET b == i + Len(alt.left)
             e == RunEnd(s, b, InnerClass)
         IN  IF e > b THEN e ELSE 0

\* the index after the match of one alternative at position i, 0 without a
\* match. The inner run of a balanced alternative is greedy and gives
\* characters back until the right delimiter follows.
MatchAlt(s, i, alt) ==
    IF alt.kind = "literal"
      THEN IF OccursAt(s, alt.left, i) THEN i + Len(alt.left) ELSE 0
    ELSE IF alt.kind = "word"
      THEN LET e == RunEnd(s, i, TokenWordClass) IN IF e > i THEN e ELSE 0
    ELSE IF ~OccursAt(s, alt.left, i) THEN 0
    ELSE LET b == i + Len(alt.left)
             e == RunEnd(s, b, InnerClass)
             ends == {j \in (b + 1)..e : OccursAt(s, alt.right, j)}
         IN  IF ends = {} THEN 0
             ELSE (CHOOSE j \in ends : \A j2 \in ends : j2 <= j) + Len(alt.right)

\* the match of the whole alternation at i: the first alternative that matches
RECURSIVE MatchAt(_, _, _)
MatchAt(s, i, k) ==
    IF k > Len(TokensPattern) THEN 0
    ELSE LET e == MatchAlt(s, i, TokensPattern[k])
         IN  IF e # 0 THEN e ELSE MatchAt(s, i, k + 1)

\* patt.findall(text): the matches from left to right, without overlap
RECURSIVE FindAllFrom(_, _)
FindAllFrom(s, i) ==
    IF i > Len(s) THEN <<>>
    ELSE LET e == MatchAt(s, i, 1)
         IN  IF e = 0 THEN FindAllFrom(s, i + 1)
             ELSE <<SubSeq(s, i, e - 1)>> \o FindAllFrom(s, e)

FindAll(s) == FindAllFrom(s, 1)

Options ==
    [force_lowercase : BOOLEAN, discard_fillers : BOOLEAN,
     discard_noncontent : BOOLEAN, discard_incomplete : BOOLEAN,
     cleanup_token : BOOLEAN]

DefaultOptions ==
    [force_lowercase |-> TRUE, discard_fillers |-> TRUE,
     discard_noncontent |-> TRUE, discard_incomplete |-> TRUE,
     cleanup_token |-> TRUE]

\* the list noncontent of tokenize: lowercased only under force_lowercase
Noncontent(o) ==
    {IF o.force_lowercase THEN Lower(TagValue(TAGS_NONCONTENT[k]))
                          ELSE TagValue(TAGS_NONCONTENT[k])
       : k \in 1..Len(TAGS_NONCONTENT)}

\* the condition without the "(pp" exception
DiscardedKeepPP(word, o) ==
    \/ o.discard_incomplete /\ EndsWith(word, <<"~">>)
    \/ o.discard_noncontent /\ word \in Noncontent(o)
    \/ o.discard_fillers /\ StartsWith(word, <<"(">>)

\* the condition under which maketoken returns None
Discarded(word, o) ==
    \/ o.discard_incomplete /\ EndsWith(word, <<"~">>)
    \/ o.discard_noncontent /\ word \in Noncontent(o)
    \/ /\ o.discard_fillers
       /\ StartsWith(word, <<"(">>)
       /\ ~StartsWith(word, <<"(", "p", "p">>)

None == [kind |-> "None", raw |-> <<>>, tag |-> "None", content |-> <<>>,
         text |-> <<>>]

maketoken(word, o) ==
    IF Discarded(word, o) THEN None ELSE Token(word, o.cleanup_token)

\* the map of maketoken over the matches and the list built from it: the
\* list of Tokens, or the ValueError of a Token
MapTokens(found, o) ==
    LET made == [k \in 1..Len(found) |-> maketoken(found[k], o)]
    IN  IF \E k \in 1..Len(made) : made[k].kind = "ValueError"
          THEN [kind |-> "ValueError", list |-> <<>>]
          ELSE [kind |-> "list",
                list |-> SelectSeq(made, LAMBDA x : x.kind # "None")]

\* text = text.lower() if force_lowercase else text; patt.findall(text)
Scan(t, o) == FindAll(IF o.force_lowercase THEN Lower(t) ELSE t)

\* tokenize(text, ...)
Tokenize(t, o) == MapTokens(Scan(t, o), o)

(***************************************************************************)
(* The inputs of Token and of tokenize                                     *)
(***************************************************************************)

\* the concatenations of at most n pieces
RECURSIVE StringsUpTo(_, _)
StringsUpTo(pieces, n) ==
    IF n = 0 THEN {<<>>}
    ELSE StringsUpTo(pieces, n - 1)
           \cup {p \o s : p \in pieces, s \in StringsUpTo(pieces, n - 1)}

TokenPieces ==
    {<<"[">>, <<"]">>, <<"(">>, <<")">>, <<"#">>, <<"!">>, <<"-">>,
     <<"a">>, <<"B", " ", "c">>, <<"<", "u", "n", "k", ">">>}

TokenInputs ==
    StringsUpTo(TokenPieces, MaxPieces)
      \cup {<<"[", "L", "a", "h", "]", " ", "o", "k">>, <<"[", "a", "-", "b", "]">>, <<"<", "S", "T", "A", "/", ">", " ", "x">>}

TextScenarios ==
    {<<"(", "u", "h", ")">>,
     <<"(", "p", "p", " ", "h", "i", ")">>,
     <<"h", "e", "l", "l", "o", " ", "(", "p", "p", "b", ")", " ", "w", "o", "r", "l", "d">>,
     <<"c", "a", "k", "e", " ", "p", "_", "s", "_", "l", "_", "e", " ", "p", "-", "f", "i", "v", "e", " ", "i", "n", "c", "o", "m", "p", "l", "e", "~">>,
     <<"[", "h", "i", "]">>,
     <<"[", "a", "-", "b", "]">>,
     <<"(", "p", "p", "_", "x", ")">>,
     <<"#", "h", "i", "#", " ", "!", "a", "_", "b", "!">>}

TextPieces ==
    {<<"(">>, <<")">>, <<"[">>, <<"]">>, <<"#">>, <<"~">>, <<" ">>,
     <<"p", "p">>, <<"h", "i">>,
     <<"<", "u", "n", "k", ">">>, <<"<", "F", "I", "L", "/", ">">>, <<"(", "p", "p", "b", ")">>, <<"*", "*">>}

TextInputs == StringsUpTo(TextPieces, MaxTextPieces) \cup TextScenarios

\* no Token constructed yet
Pending == [kind |-> "pending", raw |-> <<>>, tag |-> "None",
            content |-> <<>>, text |-> <<>>]

\* tokenize has not returned yet
PendingList == [kind |-> "pending", list |-> <<>>]

TokenIdle ==
    string = <<>> /\ cleanup = TRUE /\ working = Unassigned /\ tok = Pending

TokenizeIdle ==
    text = <<>> /\ opts = DefaultOptions /\ matched = <<>> /\ tokens = PendingList

(***************************************************************************)
(* Interval.interval_grouped_pattern, Interval.from_text and               *)
(* Conversation.generate_intervals                                         *)
(*                                                                         *)
(* The text of a TextGrid file is a sequence of units:                     *)
(*   head   the fields of one record up to and including the quote that    *)
(*          opens its text: intervals [index]: xmin = F xmax = F text = "  *)
(*          (nl: the white space between its fields holds a newline)       *)
(*   quote  the character "                                                *)
(*   char   any other character than a newline                             *)
(*   nl     a newline                                                      *)
(***************************************************************************)

HeadUnit(index, xmin, xmax, nl) ==
    [u |-> "head", index |-> index, xmin |-> xmin, xmax |-> xmax, nl |-> nl]

Quote == [u |-> "quote", index |-> <<>>, xmin |-> <<>>, xmax |-> <<>>, nl |-> FALSE]

Char == [u |-> "char", index |-> <<>>, xmin |-> <<>>, xmax |-> <<>>, nl |-> FALSE]

Newline == [u |-> "nl", index |-> <<>>, xmin |-> <<>>, xmax |-> <<>>, nl |-> TRUE]

\* the regular expression's "." matches the whole unit: no newline in it
DotMatches(x) == x.u \in {"quote", "char"} \/ (x.u = "head" /\ ~x.nl)

\* the unit ends with a quote character
EndsWithQuote(x) == x.u = "quote" \/ x.u = "head"

\* the index after the longest run of units "." matches that starts at i
RECURSIVE DotRunEnd(_, _)
DotRunEnd(t, i) ==
    IF i <= Len(t) /\ DotMatches(t[i]) THEN DotRunEnd(t, i + 1) ELSE i

\* one record of the pattern at i:  <fields> text = ".*"  The index after
\* the match, 0 without one: .* is greedy and stays on the line, so the
\* record ends at the last quote of the line.
RecordEnd(t, i) ==
    IF i > Len(t) \/ t[i].u # "head" THEN 0
    ELSE LET e == DotRunEnd(t, i + 1)
             closers == {q \in (i + 1)..(e - 1) : EndsWithQuote(t[q])}
         IN  IF closers = {} THEN 0
             ELSE (CHOOSE q \in closers : \A q2 \in closers : q2 <= q) + 1

\* (record)+ at i: <<start of the last repetition, index after the match>>
RECURSIVE RunOfRecords(_, _)
RunOfRecords(t, i) ==
    LET e == RecordEnd(t, i)
    IN  IF e # 0 /\ RecordEnd(t, e) # 0 THEN RunOfRecords(t, e) ELSE <<i, e>>

\* interval_grouped_pattern.findall(rawtext), first group of each match: the
\* text the group matched in its last repetition
RECURSIVE FindRecordsFrom(_, _)
FindRecordsFrom(t, i) ==
    IF i > Len(t) THEN <<>>
    ELSE IF RecordEnd(t, i) = 0 THEN FindRecordsFrom(t, i + 1)
    ELSE LET run == RunOfRecords(t, i)
         IN  <<SubSeq(t, run[1], run[2] - 1)>> \o FindRecordsFrom(t, run[2])

FindRecords(t) == FindRecordsFrom(t, 1)

DigitValue(c) == CHOOSE d \in 0..9 : ToString(d) = c

\* int(digits)
RECURSIVE ParseInt(_)
ParseInt(digits) ==
    IF digits = <<>> THEN 0
    ELSE 10 * ParseInt(SubSeq(digits, 1, Len(digits) - 1))
           + DigitValue(digits[Len(digits)])

RECURSIVE StripZeros(_)
StripZeros(digits) ==
    IF digits # <<>> /\ digits[Len(digits)] = "0"
      THEN StripZeros(SubSeq(digits, 1, Len(digits) - 1))
      ELSE digits

\* float(chars) for chars of the form (\d+\.)?\d+ : the whole part and the
\* decimals, trailing zeros dropped
ParseFloat(chars) ==
    IF \E k \in 1..Len(chars) : chars[k] = "."
      THEN LET k == CHOOSE k \in 1..Len(chars) : chars[k] = "."
           IN  [whole |-> ParseInt(SubSeq(chars, 1, k - 1)),
                decimals |-> StripZeros(SubSeq(chars, k + 1, Len(chars)))]
      ELSE [whole |-> ParseInt(chars), decimals |-> <<>>]

\* Interval.from_text(raw, textgrid): interval_pattern.match on the record,
\* then Interval.__init__; ValueError('bad interval format') without a match
from_text(raw, textgrid) ==
    IF RecordEnd(raw, 1) = 0
      THEN [kind |-> "ValueError"]
      ELSE [kind |-> "Interval",
            index |-> ParseInt(raw[1].index),
            xmin |-> ParseFloat(raw[1].xmin),
            xmax |-> ParseFloat(raw[1].xmax),
            text |-> SubSeq(raw, 2, RecordEnd(raw, 1) - 2)
                       \o (IF raw[RecordEnd(raw, 1) - 1].u = "head"
                             THEN <<[raw[RecordEnd(raw, 1) - 1]
                                       EXCEPT !.u = "fields"]>>
                             ELSE <<>>),
            textgrid |-> textgrid,
            raw |-> raw]

Heads ==
    {HeadUnit(<<"1">>, <<"0">>, <<"1", ".", "5">>, nl) : nl \in BOOLEAN}
      \cup {HeadUnit(<<"0", "2">>, <<"1", ".", "5", "0">>, <<"2">>, nl) : nl \in BOOLEAN}

Units == Heads \cup {Quote, Char, Newline}

RawTexts == UNION {[1..n -> Units] : n \in 0..MaxUnits}

ParseIdle ==
    /\ rawtext = <<>> /\ ivtexts = <<>> /\ yielded = <<>>
    /\ ppc = "idle" /\ perror = "idle"

ParseInit ==
    /\ rawtext \in RawTexts
    /\ ivtexts = <<>>
    /\ yielded = <<>>
    /\ ppc = "start"
    /\ perror = "none"

\* the first __next__(): rawtext = cls.open_textgrid(filepath);
\* repatt.findall(rawtext)
ParseStart ==
    /\ ppc = "start"
    /\ ivtexts' = FindRecords(rawtext)
    /\ ppc' = "for"
    /\ UNCHANGED <<rawtext, yielded, perror>>
    /\ UNCHANGED notParse

\* for ivtext, *_ in ...: yield Interval.from_text(ivtext, textgrid=filepath)
ParseYield ==
    /\ ppc = "for"
    /\ ivtexts # <<>>
    /\ IF from_text(Head(ivtexts), 1).kind = "ValueError"
         THEN /\ perror' = "ValueError"
              /\ ppc' = "done"
              /\ UNCHANGED yielded
         ELSE /\ yielded' = Append(yielded, from_text(Head(ivtexts), 1))
              /\ UNCHANGED <<ppc, perror>>
    /\ ivtexts' = Tail(ivtexts)
    /\ UNCHANGED rawtext
    /\ UNCHANGED notParse

\* yield False
ParseYieldFalse ==
    /\ ppc = "for"
    /\ ivtexts = <<>>
    /\ ppc' = "false"
    /\ UNCHANGED <<rawtext, ivtexts, yielded, perror>>
    /\ UNCHANGED notParse

\* the generator body returns: the consumer's iteration ends
ParseReturn ==
    /\ ppc = "false"
    /\ ppc' = "done"
    /\ UNCHANGED <<rawtext, ivtexts, yielded, perror>>
    /\ UNCHANGED notParse

ParseNext == ParseStart \/ ParseYield \/ ParseYieldFalse \/ ParseReturn

(***************************************************************************)
(* Conversation.generate_intervals and Conversation.linearize              *)
(***************************************************************************)

\* Python's False, the sentinel generate_intervals yields last.
False == [textgrid |-> 0, index |-> 0, xmin |-> 0]

\* An Interval object: identified by its file and its ordinal in it.
MkInterval(tg, i, x) == [textgrid |-> tg, index |-> i, xmin |-> x]

\* Interval defines neither __bool__ nor __len__: every Interval is truthy.
Truthy(v) == v # False

\* The generator of generate_intervals: the intervals still to be yielded and
\* whether the final False has been yielded.
NewGen(items) == [todo |-> items, fin |-> FALSE]

\* gen.__next__() raises StopIteration once the generator body has returned.
GenRaises(g) == g.todo = <<>> /\ g.fin

\* The value gen.__next__() returns.
GenValue(g) == IF g.todo # <<>> THEN Head(g.todo) ELSE False

\* The generator after gen.__next__().
GenAfter(g) == IF g.todo # <<>> THEN [g EXCEPT !.todo = Tail(g.todo)]
               ELSE [g EXCEPT !.fin = TRUE]

\* A StopIteration raised inside a generator body: under PEP 479 (Python 3.7
\* and later) the consumer gets a RuntimeError; a Python 3.6 interpreter, the
\* oldest that runs this code, ends the iteration normally.
RaiseOutcomes == {"exhausted", "RuntimeError"}

\* the comparison with the tie going to the second producer
EmitFirstLt(a, b) == a.xmin < b.xmin

\* the comparison reversed
EmitFirstGe(a, b) == a.xmin >= b.xmin

\* linearize's comparison: iv1 goes first when iv1.xmin <= iv2.xmin.
EmitFirst(a, b) == a.xmin <= b.xmin

\* the drain loop reading gen2 whichever producer is left
DrainGenAlways2(a) == 2

\* gen = gen1 if iv1 else gen2
DrainGen(a) == IF Truthy(a) THEN 1 ELSE 2

\* iv = iv1 or iv2
DrainIv(a, b) == IF Truthy(a) THEN a ELSE b

Producers == UNION {[1..n -> 0..MaxX] : n \in 0..MaxLen}

MergeInit ==
    /\ \E xs \in Producers :
          seq_a = [i \in 1..Len(xs) |-> MkInterval(1, i, xs[i])]
    /\ \E xs \in Producers :
          seq_b = [i \in 1..Len(xs) |-> MkInterval(2, i, xs[i])]
    /\ gen1 = NewGen(<<>>)
    /\ gen2 = NewGen(<<>>)
    /\ iv1 = False
    /\ iv2 = False
    /\ gen = 0
    /\ iv = False
    /\ out = <<>>
    /\ pc = "start"
    /\ outcome = "running"

\* gen1, gen2 are created and one item is pulled from each.
Start ==
    /\ pc = "start"
    /\ iv1' = GenValue(NewGen(seq_a))
    /\ gen1' = GenAfter(NewGen(seq_a))
    /\ iv2' = GenValue(NewGen(seq_b))
    /\ gen2' = GenAfter(NewGen(seq_b))
    /\ pc' = "loop"
    /\ UNCHANGED <<seq_a, seq_b, gen, iv, out, outcome>>
    /\ UNCHANGED notMerge

\* if iv1 == iv2 == False: raise StopIteration
LoopBothFalse ==
    /\ pc = "loop"
    /\ iv1 = iv2 /\ iv2 = False
    /\ pc' = "done"
    /\ \E o \in RaiseOutcomes : outcome' = o
    /\ UNCHANGED <<seq_a, seq_b, gen1, gen2, iv1, iv2, gen, iv, out>>
    /\ UNCHANGED notMerge

\* if iv1 and iv2: yield the one with the smaller xmin
LoopYield ==
    /\ pc = "loop"
    /\ ~(iv1 = iv2 /\ iv2 = False)
    /\ Truthy(iv1) /\ Truthy(iv2)
    /\ IF EmitFirst(iv1, iv2)
         THEN out' = Append(out, iv1) /\ pc' = "resume1"
         ELSE out' = Append(out, iv2) /\ pc' = "resume2"
    /\ UNCHANGED <<seq_a, seq_b, gen1, gen2, iv1, iv2, gen, iv, outcome>>
    /\ UNCHANGED notMerge

\* iv1 = gen1.__next__(), then continue
LoopResume1 ==
    /\ pc = "resume1"
    /\ IF GenRaises(gen1)
         THEN /\ pc' = "done"
              /\ \E o \in RaiseOutcomes : outcome' = o
              /\ UNCHANGED <<gen1, iv1>>
         ELSE /\ iv1' = GenValue(gen1)
              /\ gen1' = GenAfter(gen1)
              /\ pc' = "loop"
              /\ UNCHANGED outcome
    /\ UNCHANGED <<seq_a, seq_b, gen2, iv2, gen, iv, out>>
    /\ UNCHANGED notMerge

\* iv2 = gen2.__next__(), then continue
LoopResume2 ==
    /\ pc = "resume2"
    /\ IF GenRaises(gen2)
         THEN /\ pc' = "done"
              /\ \E o \in RaiseOutcomes : outcome' = o
              /\ UNCHANGED <<gen2, iv2>>
         ELSE /\ iv2' = GenValue(gen2)
              /\ gen2' = GenAfter(gen2)
              /\ pc' = "loop"
              /\ UNCHANGED outcome
    /\ UNCHANGED <<seq_a, seq_b, gen1, iv1, gen, iv, out>>
    /\ UNCHANGED notMerge

\* break; gen = gen1 if iv1 else gen2; iv = iv1 or iv2
LoopBreak ==
    /\ pc = "loop"
    /\ ~(iv1 = iv2 /\ iv2 = False)
    /\ ~(Truthy(iv1) /\ Truthy(iv2))
    /\ gen' = DrainGen(iv1)
    /\ iv' = DrainIv(iv1, iv2)
    /\ pc' = "drain"
    /\ UNCHANGED <<seq_a, seq_b, gen1, gen2, iv1, iv2, out, outcome>>
    /\ UNCHANGED notMerge

\* while iv: yield iv
DrainYield ==
    /\ pc = "drain"
    /\ Truthy(iv)
    /\ out' = Append(out, iv)
    /\ pc' = "resumeD"
    /\ UNCHANGED <<seq_a, seq_b, gen1, gen2, iv1, iv2, gen, iv, outcome>>
    /\ UNCHANGED notMerge

\* iv = gen.__next__()
DrainResume ==
    /\ pc = "resumeD"
    /\ LET g == IF gen = 1 THEN gen1 ELSE gen2 IN
       IF GenRaises(g)
         THEN /\ pc' = "done"
              /\ \E o \in RaiseOutcomes : outcome' = o
              /\ UNCHANGED <<gen1, gen2, iv>>
         ELSE /\ iv' = GenValue(g)
              /\ gen1' = (IF gen = 1 THEN GenAfter(g) ELSE gen1)
              /\ gen2' = (IF gen = 1 THEN gen2 ELSE GenAfter(g))
              /\ pc' = "drain"
              /\ UNCHANGED outcome
    /\ UNCHANGED <<seq_a, seq_b, iv1, iv2, gen, out>>
    /\ UNCHANGED notMerge

\* the drain loop ends on the False item: raise StopIteration
DrainEnd ==
    /\ pc = "drain"
    /\ ~Truthy(iv)
    /\ pc' = "done"
    /\ \E o \in RaiseOutcomes : outcome' = o
    /\ UNCHANGED <<seq_a, seq_b, gen1, gen2, iv1, iv2, gen, iv, out>>
    /\ UNCHANGED notMerge

\* linearize is not running
MergeIdle ==
    /\ seq_a = <<>> /\ seq_b = <<>>
    /\ gen1 = NewGen(<<>>) /\ gen2 = NewGen(<<>>)
    /\ iv1 = False /\ iv2 = False /\ gen = 0 /\ iv = False
    /\ out = <<>> /\ pc = "idle" /\ outcome = "idle"

Init == MergeInit /\ TokenIdle /\ TokenizeIdle /\ ParseIdle

Next ==
    \/ Start
    \/ LoopBothFalse
    \/ LoopYield
    \/ LoopResume1
    \/ LoopResume2
    \/ LoopBreak
    \/ DrainYield
    \/ DrainResume
    \/ DrainEnd

Spec == Init /\ [][Next]_vars

(***************************************************************************)
(* Token construction on its own: Token(string, cleanup) for every string  *)
(* of TokenInputs                                                          *)
(***************************************************************************)

TokenInit ==
    /\ string \in TokenInputs
    /\ cleanup \in BOOLEAN
    /\ working = Unassigned
    /\ tok = Pending
    /\ MergeIdle /\ TokenizeIdle /\ ParseIdle

\* Token.__init__(string, cleanup)
Construct ==
    /\ tok = Pending
    /\ working' = WorkingText(string, cleanup)
    /\ tok' = Token(string, cleanup)
    /\ UNCHANGED <<string, cleanup>>
    /\ UNCHANGED notToken

SpecToken == TokenInit /\ [][Construct]_vars

(***************************************************************************)
(* Interval.tokenize on its own: tokenize(text, flags) for every text of   *)
(* TextInputs and every combination of the flags                           *)
(***************************************************************************)

TokenizeInit ==
    /\ text \in TextInputs
    /\ opts \in Options
    /\ matched = <<>>
    /\ tokens = PendingList
    /\ MergeIdle /\ TokenIdle /\ ParseIdle

\* Interval.tokenize(text, force_lowercase, discard_fillers, ...)
TokenizeCall ==
    /\ tokens = PendingList
    /\ matched' = Scan(text, opts)
    /\ tokens' = MapTokens(matched', opts)
    /\ UNCHANGED <<text, opts>>
    /\ UNCHANGED notTokenize

SpecTokenize == TokenizeInit /\ [][TokenizeCall]_vars

(***************************************************************************)
(* generate_intervals on its own, iterated to its end, for every text of   *)
(* RawTexts                                                                *)
(***************************************************************************)

ParseSpecInit == ParseInit /\ MergeIdle /\ TokenIdle /\ TokenizeIdle

SpecParse == ParseSpecInit /\ [][ParseNext]_vars

(***************************************************************************)
(* Claims about Conversation.linearize                                     *)
(***************************************************************************)

\* s is in non-decreasing xmin order
SortedByXmin(s) == \A i \in 1..(Len(s) - 1) : s[i].xmin <= s[i + 1].xmin

\* the items of s that came from file tg, in the order of s
FromFile(s, tg) == SelectSeq(s, LAMBDA v : v.textgrid = tg)

IsPrefix(p, s) == Len(p) <= Len(s) /\ p = SubSeq(s, 1, Len(p))

\* C1: when both producers are in non-decreasing xmin order, the sequence
\* linearize has emitted so far is in non-decreasing xmin order.
C1_MergeSorted ==
    (SortedByXmin(seq_a) /\ SortedByXmin(seq_b)) => SortedByXmin(out)

\* C1's case: two sorted producers of two or more intervals each were merged
\* to the end, and an interval of the second file was emitted before one of
\* the first.
C1_Witness ==
    /\ pc = "done"
    /\ SortedByXmin(seq_a) /\ SortedByXmin(seq_b)
    /\ Len(seq_a) >= 2 /\ Len(seq_b) >= 2
    /\ Len(out) = Len(seq_a) + Len(seq_b)
    /\ \E i \in 1..(Len(out) - 1) :
          out[i].textgrid = 2 /\ out[i + 1].textgrid = 1

\* C2: for any two producers, sorted or not, what linearize emits is an
\* interleaving of the two: the emitted items of each file are, as the same
\* objects and in the same order, a prefix of what that file's producer
\* yields, nothing else is emitted, and at the end of the merge every
\* interval of both producers has been emitted exactly once.
C2_MergeInterleaves ==
    /\ IsPrefix(FromFile(out, 1), seq_a)
    /\ IsPrefix(FromFile(out, 2), seq_b)
    /\ Len(out) = Len(FromFile(out, 1)) + Len(FromFile(out, 2))
    /\ pc = "done" => /\ FromFile(out, 1) = seq_a
                      /\ FromFile(out, 2) = seq_b

\* C2's case: the merge of two producers of unequal length, one of them not
\* sorted, has ended.
C2_Witness ==
    /\ pc = "done"
    /\ Len(seq_a) = 3 /\ Len(seq_b) = 1
    /\ ~SortedByXmin(seq_a)
    /\ Len(out) = 4

\* C3 (as claimed): once everything has been emitted the consumer observes
\* the normal exhaustion of the sequence, not an error, whether both
\* producers are non-empty, one is empty or both are.
C3_EndsByExhaustion ==
    pc = "done" => /\ outcome = "exhausted"
                   /\ Len(out) = Len(seq_a) + Len(seq_b)

\* C4: when both pending intervals have equal xmin the one of the first
\* producer is emitted, and the step after an emission pulls the next item
\* of the producer the emitted interval came from and leaves the other
\* producer and its pending interval unchanged.
C4_TieFavoursFirst ==
    [][ /\ (pc = "loop" /\ Truthy(iv1) /\ Truthy(iv2) /\ iv1.xmin = iv2.xmin)
            => (out' = Append(out, iv1) /\ pc' = "resume1")
        /\ pc = "resume1"
            => /\ out[Len(out)] = iv1
               /\ iv1' = GenValue(gen1)
               /\ iv2' = iv2 /\ gen2' = gen2
        /\ pc = "resume2"
            => /\ out[Len(out)] = iv2
               /\ iv2' = GenValue(gen2)
               /\ iv1' = iv1 /\ gen1' = gen1
      ]_vars

\* C4's case: both pending intervals had the same xmin, the first producer's
\* was emitted and the second producer's is still pending.
C4_Witness ==
    /\ pc = "resume1"
    /\ Truthy(iv2)
    /\ iv1.xmin = iv2.xmin
    /\ out[Len(out)] = iv1

(***************************************************************************)
(* Claims about the tag table and Token                                    *)
(***************************************************************************)

\* the left and right form of a tag, as the table declares them
DeclaredLeft(t) == Split(TagValue(t))[1]

DeclaredRight(t) ==
    IF Len(Split(TagValue(t))) > 1 THEN Split(TagValue(t))[2] ELSE <<>>

\* exactly one of tag t's two delimiters occurs in str
OneDelimiterOnly(str, t) ==
    Contains(str, DeclaredLeft(t)) # Contains(str, DeclaredRight(t))

\* C5: for every raw string and every balanced tag, Token construction raises
\* the unbalanced-tag error when raw holds exactly one of the tag's two
\* delimiters; it succeeds when every balanced tag has both or neither; and a
\* constructed Token with a balanced tag has both delimiters of it in raw.
C5_BalancedCheck ==
    tok.kind # "pending" =>
      /\ \A k \in 1..Len(TAGS_BALANCED) :
            OneDelimiterOnly(string, TAGS_BALANCED[k]) => tok.kind = "ValueError"
      /\ (\A k \in 1..Len(TAGS_BALANCED) :
            ~OneDelimiterOnly(string, TAGS_BALANCED[k])) => tok.kind = "Token"
      /\ (tok.kind = "Token" /\ InList(tok.tag, TAGS_BALANCED))
            => /\ Contains(tok.raw, DeclaredLeft(tok.tag))
               /\ Contains(tok.raw, DeclaredRight(tok.tag))

\* C5's case: construction failed on a raw string that holds a closing
\* bracket and no opening one.
C5_Witness ==
    /\ tok.kind = "ValueError"
    /\ Contains(string, <<"]">>)
    /\ ~Contains(string, <<"[">>)
    /\ \A k \in 2..Len(TAGS_BALANCED) : ~OneDelimiterOnly(string, TAGS_BALANCED[k])

\* C8: a Token constructed with cleanup=true whose tag is present and not a
\* clitic has text = declared left form + content + declared right form
\* (empty for a tag of one form); with no tag or a clitic tag text = content;
\* and str(token) is text.
C8_TextWrapsContent ==
    (tok.kind = "Token" /\ cleanup) =>
      /\ IF tok.tag # "None" /\ ~InList(tok.tag, TAGS_CLITIC)
           THEN tok.text = DeclaredLeft(tok.tag) \o tok.content
                             \o DeclaredRight(tok.tag)
           ELSE tok.text = tok.content
      /\ TokenStr(tok) = tok.text

\* C8's case: a Token with the one-form tag UNK was constructed from
\* lowercase raw text and its text is the declared uppercase form.
C8_Witness ==
    /\ tok.kind = "Token" /\ cleanup
    /\ tok.tag = "UNK"
    /\ tok.raw = <<"<", "u", "n", "k", ">">>
    /\ tok.text = <<"<", "U", "N", "K", ">">>

\* C10 (as claimed): every balanced tag has a left and a right form that are
\* both non-empty and distinct from each other (stated of the table a Token
\* construction has checked its string against).
C10_BalancedFormsDistinct ==
    tok.kind # "pending" =>
      \A k \in 1..Len(BalancedPairs) :
        /\ BalancedPairs[k][1] # <<>>
        /\ BalancedPairs[k][2] # <<>>
        /\ BalancedPairs[k][1] # BalancedPairs[k][2]

\* C10 (amended): balancedpairs() returns the pairs of the tags of
\* TAGS_BALANCED, each with a left and a right form that are both non-empty;
\* the two forms are distinct for DD and FF and equal for HH and II.
C10_BalancedFormsNonEmpty ==
    tok.kind # "pending" =>
      /\ Len(BalancedPairs) = Len(TAGS_BALANCED)
      /\ \A k \in 1..Len(BalancedPairs) :
          /\ BalancedPairs[k] = <<DeclaredLeft(TAGS_BALANCED[k]),
                                  DeclaredRight(TAGS_BALANCED[k])>>
          /\ BalancedPairs[k][1] # <<>>
          /\ BalancedPairs[k][2] # <<>>
          /\ (BalancedPairs[k][1] # BalancedPairs[k][2])
                <=> TAGS_BALANCED[k] \in {"DD", "FF"}

\* C10's case: a Token with the balanced tag HH was constructed from a raw
\* string with a single hash, which is the tag's left and its right form.
C10_Witness ==
    /\ tok.kind = "Token"
    /\ tok.tag = "HH"
    /\ Cardinality({i \in 1..Len(string) : string[i] = "#"}) = 1

\* the lowercased raw text with every occurrence of the tag's opening form,
\* lowercased, taken out
WithoutOpeningForm(str, t) == Replace(Lower(str), Lower(DeclaredLeft(t)), <<>>)

\* C11 (as claimed): in Token construction with cleanup=true the opening form
\* of the tag is taken out of the working text only when the tag is balanced;
\* for a clitic, noncontent or structural tag, or no tag, the working text is
\* the lowercased raw text unchanged.
C11_StripOnlyBalanced ==
    (tok.kind = "Token" /\ cleanup) =>
      working = IF InList(tok.tag, TAGS_BALANCED)
                  THEN WithoutOpeningForm(string, tok.tag)
                  ELSE Lower(string)

\* C11 (amended): in Token construction with cleanup=true the opening form of
\* the tag is taken out of the working text whenever a tag is assigned and it
\* is not a clitic: for balanced, noncontent and structural tags alike, and
\* the working text then differs from the lowercased raw text; for a clitic
\* tag, or no tag, the working text is the lowercased raw text unchanged.
C11_StripUnlessClitic ==
    (tok.kind = "Token" /\ cleanup) =>
      IF tok.tag # "None" /\ ~InList(tok.tag, TAGS_CLITIC)
        THEN /\ working = WithoutOpeningForm(string, tok.tag)
             /\ working # Lower(string)
        ELSE working = Lower(string)

\* C11's case: a Token with the noncontent tag UNK was constructed with
\* cleanup=true from "<unk>a", and the working text was "a".
C11_Witness ==
    /\ tok.kind = "Token" /\ cleanup
    /\ tok.tag = "UNK"
    /\ string = <<"<", "u", "n", "k", ">", "a">>
    /\ working = <<"a">>

(***************************************************************************)
(* Claims about Interval.tokenize                                          *)
(***************************************************************************)

\* the registered noncontent surface forms, lowercased
NoncontentForms ==
    {Lower(TagValue(TAGS_NONCONTENT[k])) : k \in 1..Len(TAGS_NONCONTENT)}

\* the matched substring w produced a Token
Kept(w) == \E j \in 1..Len(tokens.list) : tokens.list[j].raw = w

\* C6 (as claimed): under discard_noncontent no matched substring whose
\* lowercased whole is a noncontent form produces a Token, whatever the
\* other flags are; without discard_noncontent such a substring is kept.
C6_NoncontentDropped ==
    tokens.kind = "list" =>
      \A k \in 1..Len(matched) :
        Lower(matched[k]) \in NoncontentForms
          => (Kept(matched[k]) <=> ~opts.discard_noncontent)

\* C7: under discard_fillers no Token comes from a matched substring that
\* begins with "(" and not with "(pp"; a matched substring that begins with
\* "(pp" is kept unless another discard rule drops it; and with the default
\* options "(uh)" gives no token, "(pp hi)" one, and "hello (ppb) world" the
\* tokens "hello", "world".
C7_FillersDropped ==
    tokens.kind = "list" =>
      /\ \A k \in 1..Len(matched) :
            (opts.discard_fillers /\ StartsWith(matched[k], <<"(">>)
               /\ ~StartsWith(matched[k], <<"(", "p", "p">>))
              => ~Kept(matched[k])
      /\ \A k \in 1..Len(matched) :
            (/\ StartsWith(matched[k], <<"(", "p", "p">>)
             /\ ~(opts.discard_noncontent /\ matched[k] \in Noncontent(opts))
             /\ ~(opts.discard_incomplete /\ EndsWith(matched[k], <<"~">>)))
              => Kept(matched[k])
      /\ opts = DefaultOptions =>
           /\ text = <<"(", "u", "h", ")">> => tokens.list = <<>>
           /\ text = <<"(", "p", "p", " ", "h", "i", ")">> =>
                 Len(tokens.list) = 1 /\ tokens.list[1].raw = <<"(", "p", "p", " ", "h", "i", ")">>
           /\ text = <<"h", "e", "l", "l", "o", " ", "(", "p", "p", "b", ")", " ", "w", "o", "r", "l", "d">> =>
                 [j \in 1..Len(tokens.list) |-> tokens.list[j].text]
                    = <<<<"h", "e", "l", "l", "o">>, <<"w", "o", "r", "l", "d">>>>

\* C7's case: tokenize("(pp hi)") with the default options returned one Token.
C7_Witness ==
    /\ tokens.kind = "list"
    /\ opts = DefaultOptions
    /\ text = <<"(", "p", "p", " ", "h", "i", ")">>
    /\ Len(tokens.list) = 1

\* the number of places where the one-character string d occurs in str
Occurrences(str, d) == Cardinality({i \in 1..Len(str) : <<str[i]>> = d})

\* d is a delimiter of the balanced tag t that str holds without its
\* partner: without the other form, or only once when the two forms are one
LoneDelimiter(str, t, d) ==
    /\ d \in {DeclaredLeft(t), DeclaredRight(t)}
    /\ Contains(str, d)
    /\ IF DeclaredLeft(t) = DeclaredRight(t)
         THEN Occurrences(str, d) = 1
         ELSE \E e \in {DeclaredLeft(t), DeclaredRight(t)} :
                 e # d /\ ~Contains(str, e)

\* the one-character strings that are a delimiter of a balanced tag
Delimiters ==
    UNION {{DeclaredLeft(TAGS_BALANCED[k]), DeclaredRight(TAGS_BALANCED[k])}
             : k \in 1..Len(TAGS_BALANCED)}

\* C13: for every text and every combination of the flags, every substring
\* the pattern scan of tokenize matched has both or none of the two
\* delimiters of each balanced tag, so tokenize returns a list and never
\* raises the unbalanced-tag error; a delimiter the text holds without its
\* partner is in none of the matched substrings: it is skipped.
C13_NeverUnbalanced ==
    tokens.kind # "pending" =>
      /\ tokens.kind = "list"
      /\ \A k \in 1..Len(matched) : \A j \in 1..Len(TAGS_BALANCED) :
            ~OneDelimiterOnly(Lower(matched[k]), TAGS_BALANCED[j])
      /\ \A j \in 1..Len(TAGS_BALANCED) : \A d \in Delimiters :
            LoneDelimiter(text, TAGS_BALANCED[j], d)
              => \A k \in 1..Len(matched) : ~Contains(matched[k], d)

\* C13's case: tokenize("[hi") returned the one Token hi, the lone opening
\* bracket skipped.
C13_Witness ==
    /\ tokens.kind = "list"
    /\ text = <<"[", "h", "i">>
    /\ matched = <<<<"h", "i">>>>
    /\ Len(tokens.list) = 1
    /\ tokens.list[1].raw = <<"h", "i">>

\* the alternative of the pattern that matches the matched substring w: the
\* first one that matches all of w
AlternativeOf(w) ==
    CHOOSE j \in 1..(Len(TokensPattern) + 1) :
        /\ j <= Len(TokensPattern) => MatchAlt(w, 1, TokensPattern[j]) = Len(w) + 1
        /\ \A i \in 1..(j - 1) : MatchAlt(w, 1, TokensPattern[i]) # Len(w) + 1

\* w was matched by the alternative of the balanced tag t
MatchedByPairOf(w, t) ==
    /\ AlternativeOf(w) <= Len(TokensPattern)
    /\ TokensPattern[AlternativeOf(w)].kind = "balanced"
    /\ TokensPattern[AlternativeOf(w)].left = Lower(DeclaredLeft(t))
    /\ TokensPattern[AlternativeOf(w)].right = Lower(DeclaredRight(t))

\* C14 (as claimed): every Token tokenize builds from a substring matched by
\* the alternative of a balanced pair has that pair's balanced tag, and its
\* text has the pair's delimiters around the content, also when the inner
\* text holds a clitic character such as - or _.
C14_BalancedMatchKeepsTag ==
    tokens.kind = "list" =>
      \A j \in 1..Len(tokens.list) : \A k \in 1..Len(TAGS_BALANCED) :
          MatchedByPairOf(tokens.list[j].raw, TAGS_BALANCED[k]) =>
            /\ tokens.list[j].tag = TAGS_BALANCED[k]
            /\ StartsWith(tokens.list[j].text, DeclaredLeft(TAGS_BALANCED[k]))
            /\ EndsWith(tokens.list[j].text, DeclaredRight(TAGS_BALANCED[k]))

(***************************************************************************)
(* Claims about Conversation.generate_intervals                            *)
(***************************************************************************)

\* the record whose fields are the unit i of t has no quote closing its
\* text: no quote follows before the next record or the end of the text
Unterminated(t, i) ==
    /\ t[i].u = "head"
    /\ \A j \in (i + 1)..Len(t) :
          (\A k \in (i + 1)..(j - 1) : t[k].u # "head") => t[j].u # "quote"

\* C9 (as claimed): when the text holds a record whose quoted text is never
\* closed, iterating generate_intervals ends with an error that reaches the
\* caller: the record is not skipped silently.
C9_UnterminatedFails ==
    (ppc = "done" /\ \E i \in 1..Len(rawtext) : Unterminated(rawtext, i))
      => perror # "none"

\* a well-formed record starts at the unit i of t: its fields, then the
\* characters of its text, then the quote that closes the text
WellFormedAt(t, i) ==
    /\ t[i].u = "head"
    /\ \E q \in (i + 1)..Len(t) :
          /\ t[q].u = "quote"
          /\ \A k \in (i + 1)..(q - 1) : t[k].u = "char"

\* the quote that closes the text of the well-formed record at i
ClosingQuote(t, i) ==
    CHOOSE q \in (i + 1)..Len(t) :
        t[q].u = "quote" /\ \A k \in (i + 1)..(q - 1) : t[k].u = "char"

\* every record of t is well formed and every quote of t closes a record:
\* t is records, each alone or directly after another, and other characters
RecordsOnly(t) ==
    /\ \A i \in 1..Len(t) : t[i].u = "head" => WellFormedAt(t, i)
    /\ \A q \in 1..Len(t) : t[q].u = "quote" =>
          \E i \in 1..(q - 1) : WellFormedAt(t, i) /\ ClosingQuote(t, i) = q

\* the values of the records of t from the unit i on, in file order
RECURSIVE RecordValuesFrom(_, _)
RecordValuesFrom(t, i) ==
    IF i > Len(t) THEN <<>>
    ELSE IF t[i].u # "head" THEN RecordValuesFrom(t, i + 1)
    ELSE <<[index |-> ParseInt(t[i].index),
            xmin |-> ParseFloat(t[i].xmin),
            xmax |-> ParseFloat(t[i].xmax),
            text |-> SubSeq(t, i + 1, ClosingQuote(t, i) - 1)]>>
           \o RecordValuesFrom(t, ClosingQuote(t, i) + 1)

\* index, xmin, xmax and text of the Intervals yielded, in order
YieldedValues ==
    [k \in 1..Len(yielded) |->
        [index |-> yielded[k].index, xmin |-> yielded[k].xmin,
         xmax |-> yielded[k].xmax, text |-> yielded[k].text]]

\* C12 (as claimed): parsing a text made of well-formed records yields
\* exactly one Interval per record, in file order, with the index, xmin, xmax
\* and text of that record, whether the records are separated by other
\* characters or follow each other directly in one run.
C12_OneIntervalPerRecord ==
    (ppc = "done" /\ RecordsOnly(rawtext)) =>
      /\ perror = "none"
      /\ YieldedValues = RecordValuesFrom(rawtext, 1)

====
